---- MODULE Spec2Model ----
(***************************************************************************)
(* Model of pupilanalysis/drosom/plotting/basics.py: the single-map        *)
(* renderer (plot_3d_vectormap), the difference-map renderer               *)
(* (plot_3d_differencemap), the comparison orchestrator                    *)
(* (compare_3d_vectormaps) and the multi-view orchestrator                 *)
(* (compare_3d_vectormaps_manyviews).                                      *)
(*                                                                         *)
(* The program is single-threaded and synchronous, so every top-level call *)
(* is one action.  A call is computed by operators that thread a record    *)
(* `s` (the heap: entities, axes attributes, the functions' mutable        *)
(* default arguments, and the log of what the call did) through the        *)
(* statements of the function in source order.  A raised exception is the  *)
(* field s.exc: every statement after it is skipped, the effects before it *)
(* stay.                                                                   *)
(*                                                                         *)
(* Python values that may be None, a scalar or a pair are coded as         *)
(* sequences: <<>> is None, <<v>> the scalar v, <<a, b>> the pair (a, b).  *)
(***************************************************************************)
EXTENDS Integers, Sequences, FiniteSets, TLC

VARIABLES
    ent,        \* the analyser objects: class, eyes, transform state
    axs,        \* attributes stashed on the matplotlib axes objects
    defaults,   \* the mutable default-argument objects of the functions
    nextax,     \* next unused axes id (axes created by the calls)
    ncalls,     \* number of top-level calls made so far
    call,       \* the last top-level call: function and arguments
    pre,        \* ent as it was when the last call started
    preaxs,     \* axs as it was when the last call started
    outcome,    \* "init", "returned" or the exception the last call raised
    log         \* what the last call did (extractions, nested invocations)

vars == <<ent, axs, defaults, nextax, ncalls, call, pre, preaxs, outcome, log>>

-----------------------------------------------------------------------------
(* Bounds of the model *)

MaxCalls == 2
MaxRenderCalls == 2

-----------------------------------------------------------------------------
(* Program constants *)

DEFAULT_ELEV == 10
DEFAULT_AZIM == 70
N_REPEAT_COLORS == 3
N_FLOW_COLORS == 5
R1_ROTATION == 29
FLOW_PITCH == 10

None == <<>>
Some(v) == <<v>>
IsNone(x) == x = <<>>

Range(q) == {q[i] : i \in 1..Len(q)}

Entities == {"e1", "e2"}
Eyes == {"left", "right"}
TiltTypes == {"pitch_rot", "roll_rot", "yaw_rot"}

-----------------------------------------------------------------------------
(* Axes objects.  Ids 0..CallerAxes-1 are axes the caller made before the  *)
(* calls; ids from CallerAxes on are handed out by plt.figure/add_subplot/ *)
(* add_axes inside the calls.                                              *)

CallerAxes == 24
PoolAxes == 20
\* the most axes one call creates: with its own figure, on the caller's axes
MaxFreshAxes == 19
MaxExtraAxes == 3
FreshAxes(axes) == IF axes = <<>> THEN MaxFreshAxes ELSE MaxExtraAxes
AxIds == 0..(CallerAxes + PoolAxes - 1)

\* axes the caller made for the direct calls of the renderers
RenderAxes == <<0, 1, 2>>

\* axes the caller made for compare_3d_vectormaps
ListA == <<3, 4, 5, 6, 7, 8>>

\* the grid of axes the caller made for compare_3d_vectormaps_manyviews; its
\* first axes carries illustrate_ax, error_ax and colorbar_ax
GridA == [k \in 1..12 |-> 8 + k]
GridIllustrate == GridA[12] + 1
GridError == GridA[12] + 2
GridColorbar == GridA[12] + 3

NoAttrs == [has_series |-> FALSE, errors |-> <<>>, rotations |-> <<>>,
            has_reverse |-> FALSE, reverse_errors |-> <<>>,
            differencemap_colorbar |-> FALSE,
            illustrate_ax |-> None, error_ax |-> None, colorbar_ax |-> None,
            extra_illustrate_ax |-> None,
            drawn |-> FALSE, title |-> "", ncolorbars |-> 0, ncolorbar_asked |-> 0]

-----------------------------------------------------------------------------
(* The record threaded through a call *)

EmptyLog == [ex |-> <<>>, vm |-> <<>>, dm |-> <<>>, cmp |-> <<>>,
             nfe |-> 0, nsp |-> 0, accum |-> None, arrow_out |-> None,
             titles_out |-> None, fe |-> <<>>, errors |-> <<>>, nphi |-> 0]

Ok(s) == s.exc = "none"
Raise(s, e) == IF Ok(s) THEN [s EXCEPT !.exc = e] ELSE s

\* fig.add_subplot / fig.add_axes: a new axes object
NewAxes(s) == [s EXCEPT !.nextax = @ + 1]
Draw(s, a) == [s EXCEPT !.axs[a].drawn = TRUE]

-----------------------------------------------------------------------------
(* External collaborators, modelled from their contracts *)

\* Number of sample points an entity has for an eye
NPts(eye) == IF eye = "left" THEN 2 ELSE 1

\* Entity.get_3d_vectors(eye, strict=True, ...): the vector field of `m` under
\* its transform state at the moment of the call
VectorsOf(s, m, eye) ==
    LET e == s.ent[m]
    IN [ent |-> m, eye |-> eye,
        n |-> IF eye \in Range(e.eyes) THEN NPts(eye) ELSE 0,
        tf |-> <<e.vector_rotation, e.pitch_rot, e.roll_rot, e.yaw_rot>>]

\* The call itself: logged with the transform state it saw; in strict mode it
\* raises when the data is unavailable (the failAt-th call of this top-level
\* call), and for an eye the entity does not have either raises or returns an
\* empty field.
Get3dVectors(s, m, eye, ctx) ==
    IF ~Ok(s) THEN s ELSE
    LET e == s.ent[m]
        ev == [ctx |-> ctx, ent |-> m, eye |-> eye,
               has |-> eye \in Range(e.eyes),
               vector_rotation |-> e.vector_rotation,
               pitch_rot |-> e.pitch_rot, roll_rot |-> e.roll_rot,
               yaw_rot |-> e.yaw_rot]
        s1 == [s EXCEPT !.nget = @ + 1, !.log.ex = Append(@, ev)]
    IN IF s1.nget = s.failAt THEN Raise(s1, "DataUnavailableError")
       ELSE IF ~ev.has /\ s.missing = "raise" THEN Raise(s1, "KeyError")
       ELSE s1

\* Errors are binary floating-point numbers in [0,1].  A number is the
\* integer count of units of 2^-FracBits it holds; the format keeps MantBits
\* significant bits, and an operation rounds its exact result to the nearest
\* number of the format, ties to even (IEEE 754, as numpy's float64 does with
\* 53 bits).
FracBits == 6
MantBits == 3
One == 2 ^ FracBits

\* the spacing of the format's numbers around x
RECURSIVE Ulp(_)
Ulp(x) == IF x < 2 ^ MantBits THEN 1 ELSE 2 * Ulp(x \div 2)

Round(x) ==
    LET u == Ulp(x)
        lo == (x \div u) * u
        hi == lo + u
    IN IF x - lo < hi - x THEN lo
       ELSE IF x - lo > hi - x THEN hi
       ELSE IF (lo \div u) % 2 = 0 THEN lo ELSE hi

Representable(x) == Round(x) = x

\* the float subtraction a - b for a >= b
FloatSub(a, b) == Round(a - b)

\* What the data gives: the directional error between the two fields of an
\* eye when they differ, a number of the format in [0,1]
ErrorLevels ==
    { [left |-> 5, right |-> One \div 2],
      [left |-> One \div 2, right |-> One] }
DefaultLevel == [left |-> One \div 2, right |-> One]

\* field_error(pointsA, vectorsA, pointsB, vectorsB, colinear): one error in
\* [0,1] per point of A; identical fields give 0; `colinear` switches the
\* metric (0 matching, 1/2 perpendicular, 1 opposing) to the one that takes
\* opposite directions for the same (0 collinear, 1 perpendicular).
FieldErrorValue(A, B, colinear, level) ==
    IF A.tf = B.tf /\ A.ent = B.ent THEN 0
    ELSE IF ~colinear THEN level
    ELSE IF 2 * level <= One THEN Round(2 * level)
    ELSE Round(2 * FloatSub(One, level))
FieldError(A, B, colinear, level) ==
    [i \in 1..A.n |-> FieldErrorValue(A, B, colinear, level)]

-----------------------------------------------------------------------------
(* _set_analyser_attributes(analyser, skip_none, raise_errors, **kwargs)   *)
(* `for key, value in kwargs` runs over the keyword arguments given.       *)
(* kwargs is the set of <<key, value>> pairs passed by keyword.            *)

RECURSIVE SetAttrsLoop(_, _, _, _, _)
SetAttrsLoop(s, analyser, todo, skip_none, raise_errors) ==
    IF todo = {} \/ ~Ok(s) THEN s
    ELSE LET kv == CHOOSE x \in todo : TRUE
             hasattr == analyser \in Entities /\ kv[1] \in TiltTypes
             s1 == IF ~IsNone(kv[2]) \/ ~skip_none
                   THEN IF hasattr
                        THEN [s EXCEPT !.ent[analyser][kv[1]] = kv[2]]
                        ELSE IF raise_errors THEN Raise(s, "NameError")
                        ELSE s
                   ELSE s
         IN SetAttrsLoop(s1, analyser, todo \ {kv}, skip_none, raise_errors)

SetAnalyserAttributes(s, analyser, kwargs) ==
    SetAttrsLoop(s, analyser, kwargs, TRUE, FALSE)

-----------------------------------------------------------------------------
(* plot_3d_vectormap                                                       *)

\* Arguments of plot_3d_vectormap with their defaults (lines 191-197).
\* arrow_rotations = None stands for "not given": the default list object.
VMDefaults ==
    [arrow_rotations |-> None, rhabdomeres |-> TRUE, hide_behind |-> TRUE,
     elev |-> None, azim |-> None,
     pitch_rot |-> None, roll_rot |-> None, yaw_rot |-> None,
     animation_type |-> "none", animation_variable |-> None,
     ax |-> None, arrows |-> None]

\* lines 219-229
ManalyserType(e, arrow_rotations) ==
    IF e.cls = "OAnalyser" /\ Len(arrow_rotations) = 1
       /\ arrow_rotations[1] = Some(0)
    THEN "OAnalyser"
    ELSE IF e.cls = "MAverager"
    THEN (IF e.part = "OAnalyser" THEN "OAnalyser" ELSE "MAnalyser")
    ELSE "MAnalyser"

\* lines 216, 227, 236: the colour table; 0 stands for the EYE_COLORS dict
NColors(e, mtype) ==
    IF mtype = "OAnalyser" THEN N_REPEAT_COLORS
    ELSE IF e.cls = "FAnalyser" THEN N_FLOW_COLORS
    ELSE 0

\* line 292: `rotation is not None or rotation != 0`
SetsRotation(rotation) == ~IsNone(rotation) \/ rotation # Some(0)

\* lines 262-279: the rhabdomeres of an OAnalyser, drawn at rotation 0
RECURSIVE RhabdomereLoop(_, _, _, _)
RhabdomereLoop(s, m, a, k) ==
    IF ~Ok(s) \/ k > Len(s.ent[m].eyes) THEN s
    ELSE RhabdomereLoop(Draw(Get3dVectors(s, m, s.ent[m].eyes[k], "rhabdomeres"), a),
                        m, a, k + 1)

\* lines 283-312: one (rotation, eye) step of the nested loops
VMStep(s, m, a, rots, i_rotation, eye, ncolors, ctx) ==
    LET rotation == rots[i_rotation]
        s1 == IF ncolors > 0 /\ i_rotation > ncolors
              THEN Raise(s, "IndexError") ELSE s
        s2 == IF Ok(s1) /\ SetsRotation(rotation)
              THEN [s1 EXCEPT !.ent[m].vector_rotation = rotation] ELSE s1
        s3 == Get3dVectors(s2, m, eye, ctx)
    IN IF Ok(s3) THEN Draw(s3, a) ELSE s3

RECURSIVE VMLoop(_, _, _, _, _, _, _)
VMLoop(s, m, a, rots, ncolors, ctx, k) ==
    LET neyes == Len(s.ent[m].eyes)
    IN IF ~Ok(s) \/ neyes = 0 \/ k > Len(rots) * neyes THEN s
       ELSE VMLoop(VMStep(s, m, a, rots, ((k - 1) \div neyes) + 1,
                          s.ent[m].eyes[((k - 1) % neyes) + 1], ncolors, ctx),
                   m, a, rots, ncolors, ctx, k + 1)

\* RestoreRotationVM with the assignment of line 314 left out
KeepRotationVM(s, m, original_rotation) == s

\* line 314
RestoreRotationVM(s, m, original_rotation) ==
    IF Ok(s) THEN [s EXCEPT !.ent[m].vector_rotation = original_rotation] ELSE s

\* The list plot_3d_vectormap works on: the caller's or the default object
VMRotations(s, args) ==
    IF IsNone(args.arrow_rotations) THEN s.defaults.arrow_rotations
    ELSE args.arrow_rotations[1]

VMType(s, m, args) == ManalyserType(s.ent[m], VMRotations(s, args))

\* lines 241-242: the list after the R1 rotation is appended to it
WithR1(arrow_rotations, mtype) ==
    IF mtype = "OAnalyser" /\ Len(arrow_rotations) = 1
       /\ arrow_rotations[1] = Some(0)
    THEN Append(arrow_rotations, Some(R1_ROTATION)) ELSE arrow_rotations

VMLog(s, m, args, ctx) ==
    [s EXCEPT !.log.vm = Append(@, [ent |-> m, ctx |-> ctx, args |-> args,
                                    mtype |-> VMType(s, m, args)])]

\* lines 231-232: the dict is passed as `analyser`, no keyword follows
VMAttributes(s) == SetAnalyserAttributes(s, "dict", {})

\* lines 235-242: the list object itself is appended to; line 241 reads
\* arrow_rotations[0]
VMAppendR1(s, m, args) ==
    IF ~Ok(s) THEN s
    ELSE IF VMType(s, m, args) = "OAnalyser" /\ Len(VMRotations(s, args)) = 0
    THEN Raise(s, "IndexError")
    ELSE IF ~IsNone(args.arrow_rotations)
    THEN [s EXCEPT !.log.arrow_out =
                       Some(WithR1(VMRotations(s, args), VMType(s, m, args)))]
    ELSE [s EXCEPT !.defaults.arrow_rotations =
                       WithR1(VMRotations(s, args), VMType(s, m, args))]

\* lines 244-246
VMAxes(s, args) == IF Ok(s) /\ IsNone(args.ax) THEN NewAxes(s) ELSE s

\* lines 252-253
VMUnpack(s, args) ==
    IF Ok(s) /\ args.animation_type = "rotate_plot"
       /\ Len(args.animation_variable) # 2
    THEN Raise(s, "TypeError") ELSE s

\* lines 262-279
VMRhabdomeres(s, m, args, mtype, a) ==
    IF Ok(s) /\ mtype = "OAnalyser" /\ args.rhabdomeres
    THEN RhabdomereLoop([s EXCEPT !.ent[m].vector_rotation = Some(0)], m, a, 1)
    ELSE s

PlotVectormap(s0, m, args, ctx) ==
    IF ~Ok(s0) THEN s0 ELSE
    LET mtype == VMType(s0, m, args)
        a == IF IsNone(args.ax) THEN s0.nextax ELSE args.ax[1]
    IN RestoreRotationVM(
           \* lines 283-312
           VMLoop(VMRhabdomeres(
                      VMUnpack(VMAxes(VMAppendR1(VMAttributes(VMLog(s0, m, args, ctx)),
                                                 m, args),
                                      args),
                               args),
                      m, args, mtype, a),
                  m, a, WithR1(VMRotations(s0, args), mtype),
                  NColors(s0.ent[m], mtype), ctx, 1),
           \* line 250
           m, s0.ent[m].vector_rotation)

\* np.mean of an error field, kept as <<sum, count>>
RECURSIVE SumSeq(_)
SumSeq(q) == IF Len(q) = 0 THEN 0 ELSE q[1] + SumSeq(Tail(q))
Mean(q) == <<SumSeq(q), Len(q)>>

-----------------------------------------------------------------------------
(* plot_3d_differencemap                                                   *)

\* Arguments of plot_3d_differencemap with their defaults (lines 334-338)
DMDefaults ==
    [ax |-> None, elev |-> Some(DEFAULT_ELEV), azim |-> Some(DEFAULT_AZIM),
     colinear |-> TRUE, colorbar |-> TRUE, colorbar_text |-> TRUE,
     colorbar_ax |-> None, reverse_errors |-> FALSE,
     colorbar_text_positions |-> "right",
     arrow_rotations |-> <<Some(0)>>,
     pitch_rot |-> None, yaw_rot |-> None, roll_rot |-> None]

\* lines 371-373
OverrideRotationDM(s, m2, arrow_rotations) ==
    IF Len(arrow_rotations) > 0
    THEN [s EXCEPT !.ent[m2].vector_rotation = arrow_rotations[1]]
    ELSE s

\* lines 375-380
OverrideTiltsDM(s, m2, args) ==
    LET s1 == IF ~IsNone(args.pitch_rot)
              THEN [s EXCEPT !.ent[m2].pitch_rot = args.pitch_rot] ELSE s
        s2 == IF ~IsNone(args.yaw_rot)
              THEN [s1 EXCEPT !.ent[m2].yaw_rot = args.yaw_rot] ELSE s1
    IN IF ~IsNone(args.roll_rot)
       THEN [s2 EXCEPT !.ent[m2].roll_rot = args.roll_rot] ELSE s2

\* ReverseErrors in exact arithmetic, without the rounding of the result
ReverseErrorsExact(errors) == [i \in 1..Len(errors) |-> One - errors[i]]

\* lines 400-401
ReverseErrors(errors) == [i \in 1..Len(errors) |-> FloatSub(One, errors[i])]

\* lines 405-408: number of azimuth ranges the eye's surface is drawn over
NPhiRanges(eye) == IF eye = "left" THEN 1 ELSE 2

\* lines 405-408: the number of azimuth samples of each of these ranges
PhiSamples(eye) == IF eye = "left" THEN <<50>> ELSE <<25, 25>>

\* Concatenate with the eye's field put in front of the earlier ones
ConcatenateInFront(all_errors, errors) == errors \o all_errors

\* lines 382, 403, 413: all_errors.append(errors), np.concatenate(all_errors)
Concatenate(all_errors, errors) == all_errors \o errors

\* DMEye with one error per azimuth sample of the surfaces instead of one
\* per point of manalyser1
DMEyePerSample(s, m1, m2, eye, args, a) ==
    LET s1 == Get3dVectors(s, m1, eye, "differencemap")
        A == VectorsOf(s, m1, eye)
        s2 == Get3dVectors(s1, m2, eye, "differencemap")
        B == VectorsOf(s1, m2, eye)
        s3 == IF Ok(s2) /\ A.n # B.n
              THEN Raise(s2, "DimensionMismatchError") ELSE s2
        e0 == [i \in 1..SumSeq(PhiSamples(eye)) |->
                  FieldErrorValue(A, B, args.colinear, s.level[eye])]
        errors == IF args.reverse_errors THEN ReverseErrors(e0) ELSE e0
    IN IF ~Ok(s3) THEN s3
       ELSE Draw([s3 EXCEPT !.log.nfe = @ + 1,
                            !.log.nsp = @ + NPhiRanges(eye),
                            !.log.nphi = @ + SumSeq(PhiSamples(eye)),
                            !.log.fe = Append(@, [eye |-> eye, n |-> A.n,
                                                  colinear |-> args.colinear,
                                                  raw |-> e0, errors |-> errors]),
                            !.log.errors = Concatenate(@, errors),
                            !.ret = Concatenate(@, errors)], a)

\* lines 384-411: one eye of manalyser1
DMEye(s, m1, m2, eye, args, a) ==
    LET s1 == Get3dVectors(s, m1, eye, "differencemap")
        A == VectorsOf(s, m1, eye)
        s2 == Get3dVectors(s1, m2, eye, "differencemap")
        B == VectorsOf(s1, m2, eye)
        s3 == IF Ok(s2) /\ A.n # B.n
              THEN Raise(s2, "DimensionMismatchError") ELSE s2
        e0 == FieldError(A, B, args.colinear, s.level[eye])
        errors == IF args.reverse_errors THEN ReverseErrors(e0) ELSE e0
    IN IF ~Ok(s3) THEN s3
       ELSE Draw([s3 EXCEPT !.log.nfe = @ + 1,
                            !.log.nsp = @ + NPhiRanges(eye),
                            !.log.nphi = @ + SumSeq(PhiSamples(eye)),
                            !.log.fe = Append(@, [eye |-> eye, n |-> A.n,
                                                  colinear |-> args.colinear,
                                                  raw |-> e0, errors |-> errors]),
                            !.log.errors = Concatenate(@, errors),
                            !.ret = Concatenate(@, errors)], a)

RECURSIVE DMLoop(_, _, _, _, _, _)
DMLoop(s, m1, m2, args, a, k) ==
    IF ~Ok(s) \/ k > Len(s.ent[m1].eyes) THEN s
    ELSE DMLoop(DMEye(s, m1, m2, s.ent[m1].eyes[k], args, a),
                m1, m2, args, a, k + 1)

\* ColorbarOnce without the marker test of line 418
ColorbarEveryCall(s, a, args) ==
    IF ~Ok(s) THEN s ELSE
    LET s1 == IF args.colorbar
              THEN [s EXCEPT !.axs[a].ncolorbar_asked = @ + 1] ELSE s
    IN IF args.colorbar
       THEN LET s2 == IF IsNone(args.colorbar_ax) THEN NewAxes(s1) ELSE s1
                cax == IF IsNone(args.colorbar_ax) THEN s1.nextax
                       ELSE args.colorbar_ax[1]
                s3 == [s2 EXCEPT !.axs[a].differencemap_colorbar = TRUE,
                                 !.axs[a].ncolorbars = @ + 1]
            IN Draw(s3, cax)
       ELSE s1

\* lines 417-459: the colorbar, at most one per target axes
ColorbarOnce(s, a, args) ==
    IF ~Ok(s) THEN s ELSE
    LET s1 == IF args.colorbar
              THEN [s EXCEPT !.axs[a].ncolorbar_asked = @ + 1] ELSE s
    IN IF args.colorbar /\ ~s1.axs[a].differencemap_colorbar
       THEN LET s2 == IF IsNone(args.colorbar_ax) THEN NewAxes(s1) ELSE s1
                cax == IF IsNone(args.colorbar_ax) THEN s1.nextax
                       ELSE args.colorbar_ax[1]
                s3 == [s2 EXCEPT !.axs[a].differencemap_colorbar = TRUE,
                                 !.axs[a].ncolorbars = @ + 1]
            IN Draw(s3, cax)
       ELSE s1

\* lines 461-462
RestoreRotationDM(s, m2, arrow_rotations, original_rotation) ==
    IF Ok(s) /\ Len(arrow_rotations) > 0
    THEN [s EXCEPT !.ent[m2].vector_rotation = original_rotation]
    ELSE s

PlotDifferencemap(s0, m1, m2, args, ctx) ==
    IF ~Ok(s0) THEN s0 ELSE
    LET s == [s0 EXCEPT !.ret = <<>>, !.log.errors = <<>>, !.log.fe = <<>>,
                        !.log.dm = Append(@, [m1 |-> m1, m2 |-> m2, ctx |-> ctx,
                                              args |-> args])]
        \* lines 364-369
        s1 == IF IsNone(args.ax) THEN NewAxes(s) ELSE s
        a == IF IsNone(args.ax) THEN s.nextax ELSE args.ax[1]
        original_rotation == s.ent[m2].vector_rotation
        s2 == OverrideRotationDM(s1, m2, args.arrow_rotations)
        s3 == OverrideTiltsDM(s2, m2, args)
        \* lines 383-411
        s4 == DMLoop(s3, m1, m2, args, a, 1)
        \* line 413: np.concatenate of an empty list raises
        s5 == IF Ok(s4) /\ Len(s4.ent[m1].eyes) = 0
              THEN Raise(s4, "ValueError") ELSE s4
        s6 == ColorbarOnce(s5, a, args)
    IN RestoreRotationDM(s6, m2, args.arrow_rotations, original_rotation)

-----------------------------------------------------------------------------
(* compare_3d_vectormaps                                                   *)

\* A keyword dictionary handed on to the renderers (kwargs, kwargs1, kwargs2):
\* None marks a key that is absent.
KwEmpty ==
    [elev |-> None, azim |-> None, arrow_rotations |-> None,
     pitch_rot |-> None, roll_rot |-> None, yaw_rot |-> None, arrows |-> None]

\* The kwargsD dictionary: None marks a key that is absent.
KDEmpty ==
    [colinear |-> None, colorbar |-> None, colorbar_ax |-> None,
     colorbar_text_positions |-> None]

\* Arguments of compare_3d_vectormaps with their defaults (lines 472-476).
\* kwargsD = None stands for "not given": the default dict object.
CompareDefaults ==
    [axes |-> None, illustrate |-> TRUE, total_error |-> TRUE,
     compact |-> FALSE, animation |-> None, animation_type |-> "none",
     animation_variable |-> None, optimal_ranges |-> None,
     biphasic |-> FALSE, kwargs1 |-> KwEmpty, kwargs2 |-> KwEmpty,
     kwargsD |-> None, kwargs |-> KwEmpty]

\* lines 514-521
NPlots(args) ==
    3 - (IF args.compact THEN 1 ELSE 0) + (IF args.total_error THEN 1 ELSE 0)
      + (IF args.illustrate THEN 1 ELSE 0)

\* lines 566, 570: plot_3d_vectormap(manalyser, animation_type=..., ax=..., **kw)
VMArgsOf(kw, animation_type, a) ==
    [VMDefaults EXCEPT !.arrow_rotations = kw.arrow_rotations,
                       !.elev = kw.elev, !.azim = kw.azim,
                       !.pitch_rot = kw.pitch_rot, !.roll_rot = kw.roll_rot,
                       !.yaw_rot = kw.yaw_rot, !.arrows = kw.arrows,
                       !.animation_type = animation_type, !.ax = Some(a)]

\* lines 578-579, 583-584: plot_3d_differencemap(m1, m2, ax=..., **kd, **kw)
DMArgsOf(kd, kw, reverse, a) ==
    [ax |-> Some(a),
     elev |-> IF IsNone(kw.elev) THEN DMDefaults.elev ELSE kw.elev,
     azim |-> IF IsNone(kw.azim) THEN DMDefaults.azim ELSE kw.azim,
     colinear |-> IF IsNone(kd.colinear) THEN DMDefaults.colinear
                  ELSE kd.colinear[1],
     colorbar |-> IF IsNone(kd.colorbar) THEN DMDefaults.colorbar
                  ELSE kd.colorbar[1],
     colorbar_text |-> DMDefaults.colorbar_text,
     colorbar_ax |-> kd.colorbar_ax,
     reverse_errors |-> reverse,
     colorbar_text_positions |->
         IF IsNone(kd.colorbar_text_positions)
         THEN DMDefaults.colorbar_text_positions
         ELSE kd.colorbar_text_positions[1],
     arrow_rotations |-> IF IsNone(kw.arrow_rotations)
                         THEN DMDefaults.arrow_rotations
                         ELSE kw.arrow_rotations[1],
     pitch_rot |-> kw.pitch_rot, yaw_rot |-> kw.yaw_rot,
     roll_rot |-> kw.roll_rot]

\* lines 534-550: what the animation type writes into kwargs1, kwargs2, kwargsD
Kwargs1Of(args) ==
    IF args.animation_type = "rotate_plot" /\ Len(args.animation_variable) = 2
    THEN [args.kwargs EXCEPT !.elev = Some(args.animation_variable[1]),
                             !.azim = Some(args.animation_variable[2])]
    ELSE args.kwargs

Kwargs2Of(args) ==
    LET t == args.animation_type
        v == args.animation_variable
    IN IF t = "rotate_arrows"
       THEN [args.kwargs EXCEPT !.arrow_rotations = Some(<<v>>)]
       ELSE IF t \in TiltTypes THEN [args.kwargs EXCEPT ![t] = v]
       ELSE IF t = "rotate_plot" /\ Len(v) = 2
       THEN [args.kwargs EXCEPT !.elev = Some(v[1]), !.azim = Some(v[2])]
       ELSE args.kwargs

KwargsDOf(kd, args) ==
    IF args.animation_type = "rotate_arrows"
    THEN [kd EXCEPT !.colorbar_text_positions = Some("rotate")]
    ELSE IF args.animation_type \in TiltTypes
    THEN [kd EXCEPT !.colinear = Some(FALSE)]
    ELSE kd

\* lines 553-560: "set 10 deg pitch for flow", for one of the two analysers
FlowPitch(s, m, animation_type) ==
    IF ~Ok(s) THEN s
    ELSE IF s.ent[m].part = "NoAttr" THEN Raise(s, "AttributeError")
    ELSE IF s.ent[m].part = "FAnalyser" /\ animation_type # "pitch_rot"
    THEN [s EXCEPT !.ent[m].pitch_rot = Some(FLOW_PITCH)]
    ELSE s

IsFlow(s, m, animation_type) ==
    s.ent[m].part = "FAnalyser" /\ animation_type # "pitch_rot"

\* axes[iax]
AxAt(s, axes, iax) == IF iax < Len(axes) THEN s ELSE Raise(s, "IndexError")

\* lines 589-593, 670-679: `optimal_range[0] < animation_variable < optimal_range[1]`
OptimalCheck(s, args) ==
    IF Ok(s) /\ ~IsNone(args.optimal_ranges) /\ Len(args.optimal_ranges[1]) > 0
       /\ Len(args.animation_variable) # 1
    THEN Raise(s, "TypeError") ELSE s

\* lines 598-667: the illustration of the animation type
IllustrateType(s, args, a) ==
    IF ~Ok(s) THEN s
    ELSE IF args.animation_type = "rotate_arrows"
    THEN IF Len(args.animation_variable) # 1 \/ IsNone(args.optimal_ranges)
            \/ (~IsNone(args.optimal_ranges) /\ Len(args.optimal_ranges[1]) = 0)
         THEN Raise(s, "TypeError") ELSE Draw(s, a)
    ELSE IF args.animation_type \in TiltTypes
    THEN IF Len(args.animation_variable) # 1
         THEN Raise(s, "TypeError") ELSE Draw(s, a)
    ELSE s

\* lines 681-710: the extra optic-flow illustration, kept on axes[0]
ExtraIllustrate(s, m1, m2, axes) ==
    IF ~Ok(s) THEN s
    ELSE IF s.ent[m1].part = "FAnalyser" /\ s.ent[m2].part = "OAnalyser"
    THEN LET a0 == axes[1]
             s1 == IF IsNone(s.axs[a0].extra_illustrate_ax)
                   THEN [NewAxes(NewAxes(s)) EXCEPT
                            !.axs[a0].extra_illustrate_ax = Some(s.nextax + 1)]
                   ELSE [s EXCEPT !.axs[s.axs[a0].extra_illustrate_ax[1]].drawn = FALSE]
             x == s1.axs[a0].extra_illustrate_ax[1]
         IN IF IsNone(s1.ent[m1].pitch_rot) THEN Raise(s1, "TypeError")
            ELSE Draw(s1, x)
    ELSE s

\* lines 586-710
Illustrate(s, m1, m2, args, axes, iax) ==
    ExtraIllustrate(
        OptimalCheck(
            IllustrateType(AxAt(OptimalCheck(s, args), axes, iax), args,
                           IF iax < Len(axes) THEN axes[iax + 1] ELSE 0),
            args),
        m1, m2, axes)

\* Accumulate with the `is None` test of line 719 lost: the lists start anew
AccumulateAnew(s, a, errors, animation_variable) ==
    [s EXCEPT !.axs[a].has_series = TRUE,
              !.axs[a].errors = <<Mean(errors)>>,
              !.axs[a].rotations = <<animation_variable>>,
              !.log.accum = Some(a)]

\* lines 719-724: one point more on the running series kept on the axes
Accumulate(s, a, errors, animation_variable) ==
    [s EXCEPT !.axs[a].has_series = TRUE,
              !.axs[a].errors =
                  Append(IF s.axs[a].has_series THEN @ ELSE <<>>, Mean(errors)),
              !.axs[a].rotations =
                  Append(IF s.axs[a].has_series THEN @ ELSE <<>>, animation_variable),
              !.log.accum = Some(a)]

\* lines 726-767: drawing the series, the text and the ticks
TotalErrorPlot(s, a, args) ==
    IF ~Ok(s) THEN s
    ELSE IF Len(args.animation_variable) = 2 \/ IsNone(args.animation)
    THEN Raise(Draw(s, a), "TypeError")
    ELSE Draw(s, a)

\* lines 769-779
AccumulateReverse(s, a, reverse_errors) ==
    IF ~Ok(s) THEN s
    ELSE LET rev == Append(IF s.axs[a].has_reverse THEN s.axs[a].reverse_errors
                           ELSE <<>>, Mean(reverse_errors))
             s1 == [s EXCEPT !.axs[a].has_reverse = TRUE,
                             !.axs[a].reverse_errors = rev]
         IN IF Len(s.axs[a].rotations) # Len(rev)
            THEN Raise(s1, "ValueError") ELSE s1

\* lines 713-779
TotalError(s, args, axes, iax, errors, reverse_errors) ==
    IF iax >= Len(axes) THEN Raise(s, "IndexError")
    ELSE IF args.biphasic
    THEN AccumulateReverse(
             TotalErrorPlot(Accumulate(s, axes[iax + 1], errors,
                                       args.animation_variable),
                            axes[iax + 1], args),
             axes[iax + 1], reverse_errors)
    ELSE TotalErrorPlot(Accumulate(s, axes[iax + 1], errors,
                                   args.animation_variable),
                        axes[iax + 1], args)

\* The local variables of a compare_3d_vectormaps call
NoFrame ==
    [m1 |-> "e1", m2 |-> "e2", args |-> CompareDefaults, axes |-> <<>>,
     kwargs1 |-> KwEmpty, kwargs2 |-> KwEmpty, kwargsD |-> KDEmpty,
     iax |-> 0, errors |-> <<>>, reverse_errors |-> <<>>]

\* lines 508-550
CmpEnter(s, m1, m2, args, ctx) ==
    LET n == NPlots(args)
        axes == IF IsNone(args.axes) THEN [i \in 1..n |-> s.nextax + i - 1]
                ELSE args.axes[1]
        kwargsD == KwargsDOf(IF IsNone(args.kwargsD) THEN s.defaults.kwargsD
                             ELSE args.kwargsD[1], args)
        s1 == [s EXCEPT
                 !.log.cmp = Append(@, [ctx |-> ctx, args |-> args]),
                 !.nextax = IF IsNone(args.axes) THEN @ + n ELSE @,
                 \* kwargsD is written in place: the default dict when not given
                 !.defaults.kwargsD = IF IsNone(args.kwargsD) THEN kwargsD ELSE @,
                 !.ent[m1].constant_points =
                     IF args.animation_type = "rotate_arrows"
                        /\ s.ent[m1].cls = "FAnalyser" THEN TRUE ELSE @,
                 !.cf = [m1 |-> m1, m2 |-> m2, args |-> args, axes |-> axes,
                         kwargs1 |-> Kwargs1Of(args), kwargs2 |-> Kwargs2Of(args),
                         kwargsD |-> kwargsD, iax |-> 0, errors |-> <<>>,
                         reverse_errors |-> <<>>]]
    IN IF args.animation_type = "rotate_plot" /\ Len(args.animation_variable) # 2
       THEN Raise(s1, "TypeError") ELSE s1

\* lines 552-563
CmpFlow(s0) ==
    IF ~Ok(s0) THEN s0 ELSE
    LET t == s0.cf.args.animation_type
        m1 == s0.cf.m1
        m2 == s0.cf.m2
        s == FlowPitch(FlowPitch(s0, m1, t), m2, t)
    IN IF ~Ok(s) THEN s
       ELSE [s EXCEPT
               !.cf.kwargs1.pitch_rot =
                   IF IsFlow(s0, m1, t) THEN Some(FLOW_PITCH) ELSE @,
               !.cf.kwargs2.pitch_rot =
                   IF IsFlow(s0, m2, t) THEN Some(FLOW_PITCH) ELSE @,
               !.cf.kwargs2.arrows =
                   IF s0.ent[m2].cls = "MAverage" /\ s0.ent[m2].part = "OAnalyser"
                   THEN Some(FALSE) ELSE @]

\* lines 565-566
CmpPanel1(s) ==
    IF ~Ok(s) THEN s
    ELSE IF Len(s.cf.axes) = 0 THEN Raise(s, "IndexError")
    ELSE PlotVectormap(s, s.cf.m1,
                       VMArgsOf(s.cf.kwargs1, s.cf.args.animation_type, s.cf.axes[1]),
                       "panel1")

\* lines 568-570
CmpPanel2(s0) ==
    IF ~Ok(s0) THEN s0 ELSE
    LET iax == IF s0.cf.args.compact THEN 0 ELSE 1
        s == [s0 EXCEPT !.cf.iax = iax]
    IN IF iax >= Len(s.cf.axes) THEN Raise(s, "IndexError")
       ELSE PlotVectormap(s, s.cf.m2,
                          VMArgsOf(s.cf.kwargs2, s.cf.args.animation_type,
                                   s.cf.axes[iax + 1]),
                          "panel2")

\* the two calls of plot_3d_differencemap: `arrows` is no parameter of it
CmpDM(s, reverse, kd) ==
    IF s.cf.iax >= Len(s.cf.axes) THEN Raise(s, "IndexError")
    ELSE IF ~IsNone(s.cf.kwargs2.arrows) THEN Raise(s, "TypeError")
    ELSE PlotDifferencemap(s, s.cf.m1, s.cf.m2,
                           DMArgsOf(kd, s.cf.kwargs2, reverse,
                                    s.cf.axes[s.cf.iax + 1]),
                           IF reverse THEN "reverse" ELSE "difference")

\* lines 573-579: the difference with the slow phase
KeepReverse(s) == IF Ok(s) THEN [s EXCEPT !.cf.reverse_errors = s.ret] ELSE s
CmpReverse(s) ==
    IF ~Ok(s) \/ ~s.cf.args.biphasic THEN s
    ELSE KeepReverse(CmpDM([s EXCEPT !.cf.iax = @ + 1], TRUE,
                           [s.cf.kwargsD EXCEPT !.colorbar = Some(FALSE)]))

\* lines 582-584
KeepErrors(s) == IF Ok(s) THEN [s EXCEPT !.cf.errors = s.ret] ELSE s
CmpDifference(s) ==
    IF ~Ok(s) THEN s
    ELSE KeepErrors(CmpDM([s EXCEPT !.cf.iax = @ + 1], FALSE, s.cf.kwargsD))

\* lines 586-710
CmpIllustrate(s) ==
    IF ~Ok(s) \/ ~s.cf.args.illustrate THEN s
    ELSE Illustrate([s EXCEPT !.cf.iax = @ + 1], s.cf.m1, s.cf.m2, s.cf.args,
                    s.cf.axes, s.cf.iax + 1)

\* lines 713-779
CmpTotalError(s) ==
    IF ~Ok(s) \/ ~s.cf.args.total_error THEN s
    ELSE TotalError([s EXCEPT !.cf.iax = @ + 1], s.cf.args, s.cf.axes,
                    s.cf.iax + 1, s.cf.errors, s.cf.reverse_errors)

Compare(s, m1, m2, args, ctx) ==
    IF ~Ok(s) THEN s
    ELSE CmpTotalError(CmpIllustrate(CmpDifference(CmpReverse(
             CmpPanel2(CmpPanel1(CmpFlow(CmpEnter(s, m1, m2, args, ctx))))))))

-----------------------------------------------------------------------------
(* compare_3d_vectormaps_manyviews                                         *)

\* line 806
Views == << <<50, 90>>, <<0, 90>>, <<-50, 90>> >>

\* lines 796-797: the default column titles
DefaultColumnTitles ==
    <<"Microsaccades", "Rhabdomere orientation", "Difference", "Mean microsaccade">>

\* Arguments of compare_3d_vectormaps_manyviews (lines 795-798) and the
\* keywords it hands on.  column_titles = None stands for "not given": the
\* default list object.
ManyviewsDefaults ==
    [axes |-> None, column_titles |-> None, animation |-> None,
     animation_type |-> "none", animation_variable |-> None,
     optimal_ranges |-> None]

\* Python list operations
PySlice(q, a, b) ==
    LET lo == IF a < Len(q) THEN a ELSE Len(q)
        hi == IF b < Len(q) THEN b ELSE Len(q)
    IN IF hi <= lo THEN <<>> ELSE SubSeq(q, lo + 1, hi)
PyInsert(q, i, x) ==
    IF i >= Len(q) THEN Append(q, x)
    ELSE SubSeq(q, 1, i) \o <<x>> \o SubSeq(q, i + 1, Len(q))
\* q[i] = x for 0 <= i < len(q)
PySet(q, i, x) == [q EXCEPT ![i + 1] = x]

\* ax.clear(): the drawn content goes, the attributes set on the object stay
ClearAxes(s, a) == [s EXCEPT !.axs[a].drawn = FALSE, !.axs[a].title = ""]

\* lines 810-819: the titles of a tilt sweep, written into the list itself
TiltTitles(titles) ==
    LET t1 == PyInsert(titles, 3, "Difference2")
        t2 == PySet(t1, 2, "Difference\n with slower phase")
        t3 == PySet(t2, 3, "Difference\n with fast phase")
    IN PySet(t3, Len(t3) - 1, "")

\* the titles that hold a line break (line 884)
NewlineTitles ==
    {"Difference\n with slower phase", "Difference\n with fast phase",
     "Optic flow\n", "Biphasic receptive field\nmovement directions"}

\* lines 882-890: the title of the column of analyser i (0 or 1)
EntityTitle(s, m, i, titles) ==
    LET e == s.ent[m]
        t1 == IF e.part = "FAnalyser" \/ e.cls = "FAnalyser"
              THEN PySet(titles, i,
                         IF \E k \in 1..Len(titles) : titles[k] \in NewlineTitles
                         THEN "Optic flow\n" ELSE "Optic flow")
              ELSE titles
    IN IF e.part = "MAnalyser" /\ e.receptive_fields
       THEN PySet(t1, i, "Biphasic receptive field\nmovement directions")
       ELSE t1

\* lines 825-872: the figure made when no axes are given
RECURSIVE NewAxesN(_, _)
NewAxesN(s, n) == IF n = 0 THEN s ELSE NewAxesN(NewAxes(s), n - 1)

ManyviewsFigure(s, rows, cols) ==
    LET n == rows * (cols - 1)
        first == s.nextax
        \* grid, illustrate_ax, the removed subplot, error_ax, tmp_ax, colorbar_ax
        s1 == NewAxesN(s, n + 5)
    IN [s1 EXCEPT !.axs[first].illustrate_ax = Some(first + n),
                  !.axs[first].error_ax = Some(first + n + 2),
                  !.axs[first].colorbar_ax = Some(first + n + 4)]

RECURSIVE SetTitles(_, _, _, _)
SetTitles(s, titles, axes, k) ==
    IF k > Len(titles) \/ k > Len(axes) THEN s
    ELSE SetTitles([s EXCEPT !.axs[axes[k]].title = titles[k]], titles, axes, k + 1)

\* The local variables of a compare_3d_vectormaps_manyviews call
NoViews ==
    [m1 |-> "e1", m2 |-> "e2", args |-> ManyviewsDefaults, axes |-> <<>>,
     cols |-> 4, biphasic |-> FALSE, given |-> FALSE, titles |-> <<>>]

\* lines 806-872
MVEnter(s, m1, m2, args) ==
    LET rows == Len(Views)
        biphasic == args.animation_type \in TiltTypes
        cols == IF biphasic THEN 5 ELSE 4
        given == ~IsNone(args.column_titles)
        titles0 == IF given THEN args.column_titles[1]
                   ELSE s.defaults.column_titles
        titles == IF biphasic THEN TiltTitles(titles0) ELSE titles0
        axes == IF IsNone(args.axes)
                THEN [k \in 1..(rows * (cols - 1)) |-> s.nextax + k - 1]
                ELSE args.axes[1]
    IN [(IF IsNone(args.axes) THEN ManyviewsFigure(s, rows, cols) ELSE s) EXCEPT
           !.defaults.column_titles = IF given THEN @ ELSE titles,
           !.log.titles_out = IF given THEN Some(titles) ELSE @,
           !.mf = [m1 |-> m1, m2 |-> m2, args |-> args, axes |-> axes,
                   cols |-> cols, biphasic |-> biphasic, given |-> given,
                   titles |-> titles]]

\* lines 874-878
MVClearError(s) ==
    IF ~IsNone(s.axs[s.mf.axes[1]].error_ax)
    THEN ClearAxes(s, s.axs[s.mf.axes[1]].error_ax[1]) ELSE s

\* column_titles is written in place: the default list when not given
WriteTitles(s, titles) ==
    [s EXCEPT !.mf.titles = titles,
              !.defaults.column_titles = IF s.mf.given THEN @ ELSE titles,
              !.log.titles_out = IF s.mf.given THEN Some(titles) ELSE @]

\* lines 881-890, for analyser i (0 or 1)
MVEntityTitle(s, m, i) ==
    IF ~Ok(s) THEN s
    ELSE IF s.ent[m].part = "NoAttr" THEN Raise(s, "AttributeError")
    ELSE WriteTitles(s, EntityTitle(s, m, i, s.mf.titles))

\* lines 893-894
MVFlowTitle(s) ==
    IF Ok(s) /\ s.ent[s.mf.m1].part = "FAnalyser"
    THEN WriteTitles(s, PySet(s.mf.titles, s.mf.cols - 1, "Mean optic flow axis"))
    ELSE s

\* lines 896-901
MVIllustrateTitle(s) ==
    IF Ok(s) /\ ~IsNone(s.axs[s.mf.axes[1]].illustrate_ax)
    THEN [s EXCEPT !.axs[s.axs[s.mf.axes[1]].illustrate_ax[1]].drawn = FALSE,
                   !.axs[s.axs[s.mf.axes[1]].illustrate_ax[1]].title =
                       s.mf.titles[Len(s.mf.titles)]]
    ELSE s

\* lines 903-905
MVColumnTitles(s) ==
    IF ~Ok(s) THEN s
    ELSE SetTitles(s, PySlice(s.mf.titles, 0, Len(s.mf.titles) - 1),
                   PySlice(s.mf.axes, 0, s.mf.cols - 1), 1)

\* ViewArgs with the first view's flags given to every view
ViewArgsAlike(i, args, axes, naxes, biphasic, a0) ==
    [CompareDefaults EXCEPT
        !.axes = Some(PySlice(axes, i * naxes, (i + 1) * naxes)
                      \o <<a0.illustrate_ax[1], a0.error_ax[1]>>),
        !.biphasic = biphasic,
        !.kwargsD = Some([KDEmpty EXCEPT !.colorbar = Some(TRUE),
                                         !.colorbar_ax = a0.colorbar_ax]),
        !.illustrate = TRUE, !.total_error = TRUE,
        !.animation = args.animation,
        !.animation_type = args.animation_type,
        !.animation_variable = args.animation_variable,
        !.optimal_ranges = args.optimal_ranges,
        !.kwargs = [KwEmpty EXCEPT !.elev = Some(Views[i + 1][1]),
                                   !.azim = Some(Views[i + 1][2])]]

\* lines 919-934: the call for view i (0, 1, 2)
ViewArgs(i, args, axes, naxes, biphasic, a0) ==
    [CompareDefaults EXCEPT
        !.axes = Some(PySlice(axes, i * naxes, (i + 1) * naxes)
                      \o <<a0.illustrate_ax[1], a0.error_ax[1]>>),
        !.biphasic = biphasic,
        !.kwargsD = Some(IF i = 0
                         THEN [KDEmpty EXCEPT !.colorbar = Some(TRUE),
                                              !.colorbar_ax = a0.colorbar_ax]
                         ELSE [KDEmpty EXCEPT !.colorbar = Some(FALSE)]),
        !.illustrate = (i = 0), !.total_error = (i = 0),
        !.animation = args.animation,
        !.animation_type = args.animation_type,
        !.animation_variable = args.animation_variable,
        !.optimal_ranges = args.optimal_ranges,
        !.kwargs = [KwEmpty EXCEPT !.elev = Some(Views[i + 1][1]),
                                   !.azim = Some(Views[i + 1][2])]]

MVView(s, i) ==
    IF ~Ok(s) THEN s
    ELSE IF IsNone(s.axs[s.mf.axes[1]].illustrate_ax)
            \/ IsNone(s.axs[s.mf.axes[1]].error_ax)
            \/ (i = 0 /\ IsNone(s.axs[s.mf.axes[1]].colorbar_ax))
    THEN Raise(s, "AttributeError")
    ELSE Compare(s, s.mf.m1, s.mf.m2,
                 ViewArgs(i, s.mf.args, s.mf.axes, s.mf.cols - 1, s.mf.biphasic,
                          s.axs[s.mf.axes[1]]),
                 "view")

\* Lines 936-939 (ax.dist, illustrate_ax.set_position) change no attribute
\* kept here; the caller's illustrate_ax carries the cbox line 939 reads.
Manyviews(s, m1, m2, args) ==
    MVView(MVView(MVView(
        MVColumnTitles(MVIllustrateTitle(MVFlowTitle(
            MVEntityTitle(MVEntityTitle(MVClearError(MVEnter(s, m1, m2, args)),
                                        m1, 0),
                          m2, 1)))),
        0), 1), 2)

-----------------------------------------------------------------------------
(* The record a call starts with: the heap as it is, nothing raised, the    *)
(* strict-mode failure the call will meet (failAt) and what get_3d_vectors  *)
(* does for an eye the analyser does not have (missing), and the error the  *)
(* data gives for each eye (level).                                         *)

Start(failAt, missing, level) ==
    [ent |-> ent, axs |-> axs, defaults |-> defaults, nextax |-> nextax,
     exc |-> "none", nget |-> 0, failAt |-> failAt, missing |-> missing,
     level |-> level,
     ret |-> <<>>, log |-> EmptyLog, cf |-> NoFrame, mf |-> NoViews]

-----------------------------------------------------------------------------
(* Initial state *)

LR == <<"left", "right">>

MkEntity(cls, part, eyes, rot) ==
    [cls |-> cls, part |-> part, eyes |-> eyes,
     vector_rotation |-> Some(rot),
     pitch_rot |-> None, roll_rot |-> None, yaw_rot |-> None,
     constant_points |-> FALSE, receptive_fields |-> FALSE]

\* The pairs of analysers the calls are made on
EntityPairs ==
    { [e1 |-> MkEntity("MAverager", "MAnalyser", LR, 10),
       e2 |-> MkEntity("MAverager", "OAnalyser", LR, 10)],
      [e1 |-> MkEntity("OAnalyser", "NoAttr", LR, 10),
       e2 |-> MkEntity("MAverager", "MAnalyser", <<"left">>, 0)],
      [e1 |-> MkEntity("MAverager", "MAnalyser", <<"left">>, 0),
       e2 |-> MkEntity("MAverager", "MAnalyser", LR, 10)],
      [e1 |-> MkEntity("MAverager", "FAnalyser", LR, 0),
       e2 |-> MkEntity("MAverager", "OAnalyser", LR, 10)] }

NoCall == [fn |-> "none", m1 |-> "e1", m2 |-> "e2", vm |-> VMDefaults,
           dm |-> DMDefaults, cmp |-> CompareDefaults, mv |-> ManyviewsDefaults]

Init ==
    /\ ent \in EntityPairs
    /\ axs = [a \in AxIds |->
                IF a = GridA[1]
                THEN [NoAttrs EXCEPT !.illustrate_ax = Some(GridIllustrate),
                                     !.error_ax = Some(GridError),
                                     !.colorbar_ax = Some(GridColorbar)]
                ELSE NoAttrs]
    /\ defaults = [arrow_rotations |-> <<Some(0)>>, kwargsD |-> KDEmpty,
                   column_titles |-> DefaultColumnTitles]
    /\ nextax = CallerAxes
    /\ ncalls = 0
    /\ call = NoCall
    /\ pre = ent
    /\ preaxs = axs
    /\ outcome = "init"
    /\ log = EmptyLog

\* The state after a top-level call that ended in record s
Finish(s, c) ==
    /\ ent' = s.ent
    /\ axs' = s.axs
    /\ defaults' = s.defaults
    /\ nextax' = s.nextax
    /\ ncalls' = ncalls + 1
    /\ call' = c
    /\ pre' = ent
    /\ preaxs' = axs
    /\ outcome' = IF Ok(s) THEN "returned" ELSE s.exc
    /\ log' = s.log

-----------------------------------------------------------------------------
(* Direct calls of the two renderers *)

VMInputs ==
    { VMDefaults,
      [VMDefaults EXCEPT !.ax = Some(0)],
      [VMDefaults EXCEPT !.ax = Some(0), !.rhabdomeres = FALSE],
      [VMDefaults EXCEPT !.ax = Some(0), !.arrow_rotations = Some(<<Some(29)>>)],
      [VMDefaults EXCEPT !.ax = Some(0), !.arrow_rotations = Some(<<Some(0)>>)],
      [VMDefaults EXCEPT !.ax = Some(0), !.arrow_rotations = Some(<<>>)],
      [VMDefaults EXCEPT !.ax = Some(0),
                         !.arrow_rotations = Some(<<Some(45), Some(29)>>)] }

\* which get_3d_vectors call of the top-level call fails in strict mode (0: none)
FailPoints == {0, 1, 4}

CallVectormap ==
    \E m \in Entities, args \in VMInputs, f \in FailPoints :
        /\ ncalls < MaxRenderCalls
        /\ nextax + MaxExtraAxes <= CallerAxes + PoolAxes
        /\ Finish(PlotVectormap(Start(f, "raise", DefaultLevel), m, args, "direct"),
                  [fn |-> "plot_3d_vectormap", m1 |-> m, m2 |-> m, vm |-> args,
                   dm |-> DMDefaults, cmp |-> CompareDefaults,
                   mv |-> ManyviewsDefaults])

DMInputs ==
    { [DMDefaults EXCEPT !.ax = Some(0)],
      [DMDefaults EXCEPT !.ax = Some(1)],
      [DMDefaults EXCEPT !.ax = Some(0), !.colorbar = FALSE],
      [DMDefaults EXCEPT !.ax = Some(0), !.colorbar_ax = Some(2)],
      [DMDefaults EXCEPT !.ax = Some(0), !.arrow_rotations = <<Some(29)>>],
      [DMDefaults EXCEPT !.ax = Some(0), !.arrow_rotations = <<>>],
      [DMDefaults EXCEPT !.ax = Some(0), !.pitch_rot = Some(45)],
      [DMDefaults EXCEPT !.ax = Some(0), !.roll_rot = Some(45),
                         !.yaw_rot = Some(-45), !.reverse_errors = TRUE,
                         !.colinear = FALSE],
      DMDefaults }

DMOracles ==
    { <<0, "raise", l>> : l \in ErrorLevels }
    \cup { <<0, "empty", DefaultLevel>>, <<2, "raise", DefaultLevel>>,
           <<3, "raise", DefaultLevel>> }

CallDifferencemap ==
    \E args \in DMInputs, o \in DMOracles :
        /\ ncalls < MaxRenderCalls
        /\ nextax + MaxExtraAxes <= CallerAxes + PoolAxes
        /\ Finish(PlotDifferencemap(Start(o[1], o[2], o[3]), "e1", "e2", args, "direct"),
                  [fn |-> "plot_3d_differencemap", m1 |-> "e1", m2 |-> "e2",
                   vm |-> VMDefaults, dm |-> args, cmp |-> CompareDefaults,
                   mv |-> ManyviewsDefaults])

-----------------------------------------------------------------------------
(* Calls of the two orchestrators *)

Sweep == <<-45, 0, 45>>
CBase ==
    [CompareDefaults EXCEPT !.axes = Some(ListA), !.animation = Some(Sweep),
                            !.optimal_ranges = Some(<< <<-10, 10, "optimal">> >>)]
CTilt(t, v) == [CBase EXCEPT !.animation_type = t, !.animation_variable = Some(v)]

CompareInputs ==
    { CTilt("pitch_rot", v) : v \in Range(Sweep) }
    \cup { CTilt("rotate_arrows", 0), CTilt("rotate_arrows", 45),
           CTilt("roll_rot", 45), CTilt("yaw_rot", -45), CTilt("none", 0),
           CBase,
           [CBase EXCEPT !.animation_type = "rotate_plot",
                         !.animation_variable = <<50, 90>>],
           [CTilt("pitch_rot", 0) EXCEPT !.illustrate = FALSE],
           [CTilt("pitch_rot", 45) EXCEPT !.total_error = FALSE],
           [CTilt("pitch_rot", 45) EXCEPT !.compact = TRUE],
           [CTilt("pitch_rot", 45) EXCEPT !.biphasic = TRUE],
           [CTilt("pitch_rot", 45) EXCEPT !.animation = None],
           [CTilt("rotate_arrows", 45) EXCEPT !.kwargsD = Some(KDEmpty)],
           [CTilt("roll_rot", 0) EXCEPT
               !.kwargsD = Some([KDEmpty EXCEPT !.colorbar = Some(FALSE)])],
           [CTilt("rotate_arrows", 0) EXCEPT !.optimal_ranges = None],
           [CTilt("pitch_rot", -45) EXCEPT !.axes = None],
           [CTilt("roll_rot", 45) EXCEPT
               !.kwargs1 = [KwEmpty EXCEPT !.elev = Some(30)],
               !.kwargs2 = [KwEmpty EXCEPT !.azim = Some(20)]],
           [CTilt("pitch_rot", 45) EXCEPT !.axes = None, !.biphasic = TRUE] }

CompareFailPoints == {0, 5}

CallCompare ==
    \E args \in CompareInputs, f \in CompareFailPoints :
        /\ ncalls < MaxCalls
        /\ nextax + FreshAxes(args.axes) <= CallerAxes + PoolAxes
        /\ Finish(Compare(Start(f, "raise", DefaultLevel), "e1", "e2", args, "direct"),
                  [fn |-> "compare_3d_vectormaps", m1 |-> "e1", m2 |-> "e2",
                   vm |-> VMDefaults, dm |-> DMDefaults, cmp |-> args,
                   mv |-> ManyviewsDefaults])

MVBase == [ManyviewsDefaults EXCEPT !.axes = Some(GridA), !.animation = Some(Sweep),
                                    !.optimal_ranges = Some(<< <<-10, 10, "optimal">> >>)]
MVSweep(t, v) == [MVBase EXCEPT !.animation_type = t, !.animation_variable = Some(v)]

ManyviewsInputs ==
    { MVSweep("pitch_rot", v) : v \in Range(Sweep) }
    \cup { MVSweep("rotate_arrows", 0), MVSweep("rotate_arrows", 45),
           MVSweep("roll_rot", 45), MVSweep("none", 0),
           [MVSweep("pitch_rot", 45) EXCEPT !.animation = None],
           [MVSweep("rotate_arrows", 45) EXCEPT !.axes = None] }

ManyviewsFailPoints == {0, 9}

CallManyviews ==
    \E args \in ManyviewsInputs, f \in ManyviewsFailPoints :
        /\ ncalls < MaxCalls
        /\ nextax + FreshAxes(args.axes) <= CallerAxes + PoolAxes
        /\ Finish(Manyviews(Start(f, "raise", DefaultLevel), "e1", "e2", args),
                  [fn |-> "compare_3d_vectormaps_manyviews", m1 |-> "e1",
                   m2 |-> "e2", vm |-> VMDefaults, dm |-> DMDefaults,
                   cmp |-> CompareDefaults, mv |-> args])

NextRender == CallVectormap \/ CallDifferencemap
SpecRender == Init /\ [][NextRender]_vars

Next == CallCompare \/ CallManyviews
Spec == Init /\ [][Next]_vars

-----------------------------------------------------------------------------
(* Properties *)

IsPrefix(p, q) == Len(p) <= Len(q) /\ SubSeq(q, 1, Len(p)) = p

IsCompare == call.fn = "compare_3d_vectormaps"
IsManyviews == call.fn = "compare_3d_vectormaps_manyviews"
IsVectormap == call.fn = "plot_3d_vectormap"
IsDifferencemap == call.fn = "plot_3d_differencemap"
Returned == outcome = "returned"
Raised == outcome \notin {"init", "returned"}

\* The axes a compare_3d_vectormaps call with total_error=True accumulates on
\* when it is given its axes: the position iax has reached at line 718
SeriesIndex(args) ==
    (IF args.compact THEN 0 ELSE 1) + (IF args.biphasic THEN 1 ELSE 0) + 1
      + (IF args.illustrate THEN 1 ELSE 0) + 1
SeriesTarget(args) == args.axes[1][SeriesIndex(args) + 1]

\* The axes the last call accumulated on, if it was given its axes
CallTargets ==
    IF IsCompare /\ call.cmp.total_error /\ ~IsNone(call.cmp.axes)
    THEN {SeriesTarget(call.cmp)}
    ELSE IF IsManyviews /\ ~IsNone(call.mv.axes)
    THEN {preaxs[call.mv.axes[1][1]].error_ax[1]}
    ELSE {}

CallVariable == IF IsCompare THEN call.cmp.animation_variable
                ELSE call.mv.animation_variable

CallMadeAxes == (IsCompare /\ IsNone(call.cmp.axes))
                \/ (IsManyviews /\ IsNone(call.mv.axes))

\* C1: the running error series of every axes only grows, by appending: a
\* call that returns adds exactly one entry, its animation variable, at the
\* end of the series of its total-error axes; the entries before it stay as
\* they were (clearing the axes does not reset them); the series of every
\* other axes is left as it was; rotations and errors have the same length.
C1_SeriesOneEntryPerCall ==
    \A a \in AxIds :
        /\ IsPrefix(preaxs[a].rotations, axs[a].rotations)
        /\ IsPrefix(preaxs[a].errors, axs[a].errors)
        /\ Len(axs[a].rotations) = Len(axs[a].errors)
        /\ Len(axs[a].rotations) <= Len(preaxs[a].rotations) + 1
        /\ (Returned /\ a \in CallTargets)
               => axs[a].rotations = Append(preaxs[a].rotations, CallVariable)
        /\ (~CallMadeAxes /\ a \notin CallTargets)
               => axs[a].rotations = preaxs[a].rotations
        /\ (CallMadeAxes /\ axs[a].rotations # preaxs[a].rotations)
               => /\ a >= CallerAxes
                  /\ axs[a].rotations = <<CallVariable>>

\* C1 witness: two compare_3d_vectormaps calls of a pitch sweep on the same
\* axes have left the two animation variables in call order
C1_Witness ==
    /\ IsCompare /\ Returned /\ call.cmp.total_error
    /\ ~IsNone(call.cmp.axes)
    /\ axs[SeriesTarget(call.cmp)].rotations = <<Some(-45), Some(0)>>
    /\ Len(axs[SeriesTarget(call.cmp)].errors) = 2

\* The caller of the last compare_3d_vectormaps call gave no 'colinear' entry
NoColinearGiven ==
    IsNone(call.cmp.kwargsD) \/ IsNone(call.cmp.kwargsD[1].colinear)

\* C2: in a compare_3d_vectormaps call whose caller gives no 'colinear'
\* entry, every plot_3d_differencemap invocation gets colinear=True when the
\* animation type is 'rotate_arrows' and colinear=False when it is a tilt,
\* whatever the calls before it were.
C2_ColinearDefault ==
    (IsCompare /\ NoColinearGiven
       /\ call.cmp.animation_type \in TiltTypes \cup {"rotate_arrows"})
        => \A i \in 1..Len(log.dm) :
               log.dm[i].args.colinear = (call.cmp.animation_type = "rotate_arrows")

\* C3: on every axes, the colorbars created are one if plot_3d_differencemap
\* has reached its colorbar step with colorbar=True at least once on it, and
\* none otherwise; the marker is set exactly when the colorbar exists; a call
\* with colorbar=False creates none.
C3_OneColorbarPerTarget ==
    \A a \in AxIds :
        /\ axs[a].ncolorbars = IF axs[a].ncolorbar_asked >= 1 THEN 1 ELSE 0
        /\ axs[a].differencemap_colorbar = (axs[a].ncolorbars = 1)
        /\ (IsDifferencemap /\ ~call.dm.colorbar)
               => axs[a].ncolorbars = preaxs[a].ncolorbars
        /\ (IsDifferencemap /\ Returned /\ call.dm.colorbar /\ call.dm.ax = Some(a))
               => /\ axs[a].ncolorbar_asked = preaxs[a].ncolorbar_asked + 1
                  /\ axs[a].ncolorbars = 1

\* C3 witness: the second colorbar=True call on the same axes has returned
C3_Witness ==
    /\ IsDifferencemap /\ Returned /\ call.dm.colorbar
    /\ ~IsNone(call.dm.ax)
    /\ axs[call.dm.ax[1]].ncolorbar_asked = 2
    /\ axs[call.dm.ax[1]].ncolorbars = 1

\* The entity whose vector_rotation a direct call of a renderer overrides
Overridden == IF IsVectormap THEN call.m1 ELSE call.m2

\* C4: when plot_3d_vectormap or plot_3d_differencemap returns, the
\* vector_rotation of the entity it overrode is what it was when the call
\* started.
C4_RotationRestoredOnReturn ==
    ((IsVectormap \/ IsDifferencemap) /\ Returned)
        => ent[Overridden].vector_rotation = pre[Overridden].vector_rotation

\* C4 witness: a call with arrow_rotations=[29] on an entity at 10 has
\* returned, having extracted a field at 29
C4_Witness ==
    /\ IsVectormap /\ Returned
    /\ call.vm.arrow_rotations = Some(<<Some(29)>>)
    /\ pre[call.m1].vector_rotation = Some(10)
    /\ ent[call.m1].vector_rotation = Some(10)
    /\ \E i \in 1..Len(log.ex) : log.ex[i].vector_rotation = Some(29)

\* C5: when plot_3d_vectormap or plot_3d_differencemap raises, the
\* vector_rotation of the entity it overrode is what it was when the call
\* started.
C5_RotationRestoredOnRaise ==
    ((IsVectormap \/ IsDifferencemap) /\ Raised)
        => ent[Overridden].vector_rotation = pre[Overridden].vector_rotation

\* C6: when plot_3d_differencemap returns, the pitch_rot, roll_rot and
\* yaw_rot of entity 2 are what they were when the call started.
C6_TiltsRestored ==
    (IsDifferencemap /\ Returned)
        => \A t \in TiltTypes : ent[call.m2][t] = pre[call.m2][t]

\* C7: in a compare_3d_vectormaps call of a tilt sweep with animation
\* variable v, every field drawn in panel 2 is extracted from entity 2 while
\* its tilt attribute of that type is v.
C7_Panel2UnderTilt ==
    (IsCompare /\ call.cmp.animation_type \in TiltTypes)
        => \A i \in 1..Len(log.ex) :
               log.ex[i].ctx = "panel2"
                   => log.ex[i][call.cmp.animation_type] = call.cmp.animation_variable

\* The axes a compare_3d_vectormaps_manyviews call given its axes accumulates on
ViewsTarget == preaxs[call.mv.axes[1][1]].error_ax[1]

\* C8: a compare_3d_vectormaps_manyviews call invokes compare_3d_vectormaps
\* for the views (50,90), (0,90), (-50,90) in this order, three times when
\* it returns; only the first invocation has illustrate, total_error and
\* colorbar on, so at most one colorbar is asked for and a call that returns
\* adds exactly one entry to the series of the error axes and none elsewhere.
C8_ThreeViewsOneEntry ==
    IsManyviews =>
        /\ Len(log.cmp) <= 3
        /\ Returned => Len(log.cmp) = 3
        /\ \A i \in 1..Len(log.cmp) :
               /\ log.cmp[i].args.kwargs.elev = Some(<<50, 0, -50>>[i])
               /\ log.cmp[i].args.kwargs.azim = Some(90)
               /\ log.cmp[i].args.illustrate = (i = 1)
               /\ log.cmp[i].args.total_error = (i = 1)
               /\ log.cmp[i].args.kwargsD[1].colorbar = Some(i = 1)
        /\ Cardinality({i \in 1..Len(log.dm) : log.dm[i].args.colorbar}) <= 1
        /\ (Returned /\ ~IsNone(call.mv.axes))
               => \A a \in AxIds :
                      Len(axs[a].rotations) =
                          Len(preaxs[a].rotations) + (IF a = ViewsTarget THEN 1 ELSE 0)

\* C8 witness: the second frame on the same grid has returned after its three
\* views, and the series of the error axes has two entries
C8_Witness ==
    /\ IsManyviews /\ Returned /\ ~IsNone(call.mv.axes)
    /\ Len(log.cmp) = 3
    /\ Len(preaxs[ViewsTarget].rotations) = 1
    /\ Len(axs[ViewsTarget].rotations) = 2

\* The last plot_3d_differencemap call left the transform overrides at their
\* defaults
NoOverridesGiven ==
    /\ call.dm.arrow_rotations = DMDefaults.arrow_rotations
    /\ \A t \in TiltTypes : IsNone(call.dm[t])

\* C9: in a plot_3d_differencemap call without rotation or tilt overrides,
\* at every get_3d_vectors call on entity 2 its vector_rotation is what it
\* was when the call started.
C9_OwnTransformState ==
    (IsDifferencemap /\ NoOverridesGiven)
        => \A i \in 1..Len(log.ex) :
               log.ex[i].ent = call.m2
                   => log.ex[i].vector_rotation = pre[call.m2].vector_rotation

\* C10: a plot_3d_differencemap call on two entities whose eye sets
\* disagree raises before any error field is computed or surface drawn, and
\* never asks entity 2 for an eye it does not have.
C10_EyeSetMismatchFailsFast ==
    (IsDifferencemap /\ Range(pre[call.m1].eyes) # Range(pre[call.m2].eyes))
        => /\ Raised
           /\ log.nfe = 0
           /\ log.nsp = 0
           /\ \A i \in 1..Len(log.ex) :
                  ~(log.ex[i].ent = call.m2 /\ ~log.ex[i].has)

\* The last plot_3d_differencemap call returned and entity 1 has both eyes
BothEyesReturned ==
    IsDifferencemap /\ Returned /\ Range(pre[call.m1].eyes) = Eyes

\* C11 as stated: with both eyes, the left one drawn over 50 azimuth samples
\* and the right one over 25+25, the returned error field has 100 entries.
C11_HundredEntries ==
    (BothEyesReturned /\ log.nphi = 100) => Len(log.errors) = 100

\* C11 amended: with both eyes, the surfaces are drawn over 50 and 25+25
\* azimuth samples (three surface_plot calls), and the returned error field
\* has one entry per point of entity 1, left and right eye together,
\* whatever the number of azimuth samples.
C11_OneEntryPerPoint ==
    BothEyesReturned
        => /\ log.nphi = 100
           /\ log.nsp = 3
           /\ Len(log.errors) = NPts("left") + NPts("right")

\* C11 witness: such a call has returned its field of three entries
C11_Witness ==
    /\ BothEyesReturned
    /\ log.nphi = 100
    /\ Len(log.errors) = 3
    /\ log.nfe = 2

\* The keyword dictionary compare_3d_vectormaps was given for a panel
GivenKwargs(ctx) ==
    IF ctx = "panel1" THEN call.cmp.kwargs1 ELSE call.cmp.kwargs2

\* C12: every keyword the caller gave in kwargs1 (kwargs2) reaches the
\* plot_3d_vectormap call of entity 1 (entity 2) with the caller's value.
C12_KwargsReachVectormap ==
    IsCompare
        => \A i \in 1..Len(log.vm) :
               \A key \in DOMAIN KwEmpty :
                   ~IsNone(GivenKwargs(log.vm[i].ctx)[key])
                       => log.vm[i].args[key] = GivenKwargs(log.vm[i].ctx)[key]

\* The last plot_3d_differencemap call returned, with reverse_errors
ReverseReturned == IsDifferencemap /\ Returned /\ call.dm.reverse_errors

\* |x - y|
Distance(x, y) == IF x < y THEN y - x ELSE x - y

\* C13 as stated: the field returned with reverse_errors is the pointwise
\* complement 1-e of the field_error result, and complementing it again
\* gives back the field_error result, for every e.
C13_ComplementInvolutive ==
    ReverseReturned
        => \A i \in 1..Len(log.fe) : \A j \in 1..Len(log.fe[i].raw) :
               /\ log.fe[i].errors[j] = FloatSub(One, log.fe[i].raw[j])
               /\ FloatSub(One, log.fe[i].errors[j]) = log.fe[i].raw[j]

\* C13 amended: the field returned with reverse_errors is the pointwise
\* floating-point complement 1-e of the field_error result (without
\* reverse_errors it is that result itself); complementing it again gives
\* back e exactly when 1-e is representable, and otherwise a value within
\* half a unit in the last place of the numbers below 1.
C13_ComplementUpToRounding ==
    (IsDifferencemap /\ Returned)
        => \A i \in 1..Len(log.fe) : \A j \in 1..Len(log.fe[i].raw) :
               LET e == log.fe[i].raw[j]
                   r == log.fe[i].errors[j]
               IN IF ~call.dm.reverse_errors THEN r = e
                  ELSE /\ r = FloatSub(One, e)
                       /\ FloatSub(One, r) = e <=> Representable(One - e)
                       /\ 2 ^ (MantBits + 1) * Distance(FloatSub(One, r), e) <= One

\* C13 witness: a reversed field has returned that holds an error whose
\* complement is not representable and one whose complement is
C13_Witness ==
    /\ ReverseReturned
    /\ \E i \in 1..Len(log.fe) : \E j \in 1..Len(log.fe[i].raw) :
           /\ log.fe[i].raw[j] > 0
           /\ ~Representable(One - log.fe[i].raw[j])
    /\ \E i \in 1..Len(log.fe) : \E j \in 1..Len(log.fe[i].raw) :
           /\ log.fe[i].raw[j] > 0
           /\ Representable(One - log.fe[i].raw[j])

\* The axes compare_3d_vectormaps_manyviews titles when it is given its
\* axes: the grid and the illustration panel of its first axes
TitledAxes(args) ==
    Range(args.axes[1]) \cup Range(axs[args.axes[1][1]].illustrate_ax)

\* C14: a compare_3d_vectormaps_manyviews call that repeats the call before
\* it (same entities, same arguments, same axes, column_titles left at its
\* default) sets the same title on every column and on the illustration
\* panel, and its column_titles list is as long as it was at the call before.
C14_TitlesPureLookup ==
    [][(/\ IsManyviews /\ Returned
        /\ call' = call /\ outcome' = "returned"
        /\ IsNone(call.mv.column_titles) /\ ~IsNone(call.mv.axes))
           => /\ Len(defaults'.column_titles) = Len(defaults.column_titles)
              /\ \A a \in TitledAxes(call.mv) : axs'[a].title = axs[a].title]_vars

\* The per-eye fields fe[k..] joined in their order
RECURSIVE JoinedFrom(_, _)
JoinedFrom(fe, k) ==
    IF k > Len(fe) THEN <<>> ELSE fe[k].errors \o JoinedFrom(fe, k + 1)

\* sum of the number of entity-1 points over eyes[k..]
RECURSIVE PointsFrom(_, _)
PointsFrom(eyes, k) ==
    IF k > Len(eyes) THEN 0 ELSE NPts(eyes[k]) + PointsFrom(eyes, k + 1)

\* C15: the error field plot_3d_differencemap returns is the concatenation,
\* in the order of entity 1's eyes, of one field per eye of entity 1, each
\* from a single field_error call with the call's colinear flag and with one
\* entry per entity-1 point of the eye; its length is the sum of these
\* numbers of points, whatever number of surfaces and azimuth samples is drawn.
C15_ConcatenationInEyeOrder ==
    (IsDifferencemap /\ Returned)
        => LET eyes == pre[call.m1].eyes
           IN /\ log.nfe = Len(eyes)
              /\ Len(log.fe) = Len(eyes)
              /\ \A i \in 1..Len(log.fe) :
                     /\ log.fe[i].eye = eyes[i]
                     /\ log.fe[i].colinear = call.dm.colinear
                     /\ Len(log.fe[i].errors) = NPts(eyes[i])
              /\ log.errors = JoinedFrom(log.fe, 1)
              /\ Len(log.errors) = PointsFrom(eyes, 1)

\* C15 witness: a call over two eyes has returned, the fields of the two
\* eyes differ in length and in value, and three surfaces over 100 azimuth
\* samples were drawn for the three entries
C15_Witness ==
    /\ IsDifferencemap /\ Returned
    /\ Len(log.fe) = 2
    /\ Len(log.fe[1].errors) = 2 /\ Len(log.fe[2].errors) = 1
    /\ log.fe[1].errors[1] # log.fe[2].errors[1]
    /\ log.errors = log.fe[1].errors \o log.fe[2].errors
    /\ log.nsp = 3 /\ log.nphi = 100

\* C16: a compare_3d_vectormaps call that makes its own axes (axes=None)
\* makes as many as the panels it draws: none of its panel indices falls
\* outside the list, whatever compact, illustrate, total_error and biphasic.
C16_OwnAxesSuffice ==
    (IsCompare /\ IsNone(call.cmp.axes)) => outcome # "IndexError"

\* The last call has drawn the running series of axes a (line 726), and
\* its slower-phase series (line 775): it has appended to the list drawn
PlottedSeries(a) == Len(axs[a].errors) > Len(preaxs[a].errors)
PlottedReverse(a) == Len(axs[a].reverse_errors) > Len(preaxs[a].reverse_errors)

\* C17: where compare_3d_vectormaps draws the running series of an axes, the
\* errors are as many as the rotations, and where it draws the slower-phase
\* series, the reverse errors are as many as the rotations too, after any
\* sequence of calls, with biphasic and without.
C17_SeriesLengthsAgree ==
    \A a \in AxIds :
        /\ PlottedSeries(a) => Len(axs[a].errors) = Len(axs[a].rotations)
        /\ PlottedReverse(a)
               => /\ Len(axs[a].reverse_errors) = Len(axs[a].rotations)
                  /\ Len(axs[a].errors) = Len(axs[a].rotations)

\* C18: plot_3d_vectormap leaves the arrow_rotations list it is given and
\* its default [0] as they were, so that an entity of class OAnalyser is
\* drawn as 'OAnalyser' at every call that leaves arrow_rotations at its
\* default, the second as the first.
C18_ArrowRotationsUntouched ==
    IsVectormap
        => /\ defaults.arrow_rotations = <<Some(0)>>
           /\ ~IsNone(log.arrow_out) => log.arrow_out = call.vm.arrow_rotations
           /\ (IsNone(call.vm.arrow_rotations) /\ pre[call.m1].cls = "OAnalyser")
                  => \A i \in 1..Len(log.vm) : log.vm[i].mtype = "OAnalyser"

\* C19: a compare_3d_vectormaps call that raises appends nothing: the
\* running error series of every axes is as it was before the call.
C19_RaiseLeavesSeries ==
    (IsCompare /\ Raised)
        => \A a \in AxIds :
               /\ axs[a].rotations = preaxs[a].rotations
               /\ axs[a].errors = preaxs[a].errors

====
